---- MODULE Spec2Model ----
(***************************************************************************)
(* Model of src/Code/model.ipynb: the class Model (the formulation engine  *)
(* that builds a binary program and hands it to the solver) and the class  *)
(* Schedule (the name-keyed facade over it).                               *)
(*                                                                         *)
(* Conventions of the translation:                                         *)
(*  - Python indices are 0-based, the sequences here are 1-based.          *)
(*  - Availability levels 0, 0.5, 1 are stored in halves (0, 1, 2).        *)
(*  - Target fractions are stored in units of 1/FracUnit.                  *)
(*  - The objective is a rational number; it is kept exactly, as an        *)
(*    integer part and a remainder over a common denominator.              *)
(*  - gurobipy is outside the repository: model.optimize() is taken at     *)
(*    its contract, i.e. it proves infeasibility or returns some           *)
(*    assignment that maximises the objective over the constraints added,  *)
(*    with integral values for the binary variables.                       *)
(***************************************************************************)
EXTENDS Integers, Sequences, FiniteSets, TLC

\* ------------------------------------------------------------------ bounds
MaxFloor == 1      \* largest daily floor (min_tutors_ip, min_tutors_v) drawn
MaxCeiling == 2    \* largest shift ceiling (max_shifts_by_tutor) drawn
MaxMinShifts == 1  \* largest per-tutor floor (min_tutor_shifts, min_tutor_ip_shifts) drawn

\* ------------------------------------------------------- program constants
IN_PERSON == 0
VIRTUAL == 1
EITHER == 2

UNAVAILABLE == 0
NOT_PREFERRED == 1   \* 0.5, in halves
PREFERRED == 2       \* 1, in halves

PREFER_VIRTUAL == -1
NO_PREFERENCE == 0
PREFER_IN_PERSON == 1

LOADING == 0
OPTIMAL == 1
INFEASIBLE == 2

FracUnit == 2000     \* a target fraction f is stored as f * FracUnit
epsilon == 2         \* 10**-3, in units of 1/FracUnit

NoneVal == "None"

\* ----------------------------------------------------------------- helpers
Range(f) == {f[i] : i \in DOMAIN f}

RECURSIVE SumSeq(_)
SumSeq(q) == IF q = <<>> THEN 0 ELSE q[1] + SumSeq(Tail(q))

Abs(n) == IF n < 0 THEN -n ELSE n

\* list.index(x): position of the first occurrence
IndexOf(q, x) == CHOOSE i \in 1..Len(q) : q[i] = x /\ \A j \in 1..(i-1) : q[j] # x

\* mutant: the comprehension filled from the back
RECURSIVE Comprehend_Reversed(_, _, _)
Comprehend_Reversed(q, keep, i) ==
  IF i > Len(q) THEN <<>>
  ELSE Comprehend_Reversed(q, keep, i + 1) \o (IF keep[i] THEN <<q[i]>> ELSE <<>>)

\* [q[i] for i in range(len(q)) if keep[i]], from position i on
RECURSIVE Comprehend(_, _, _)
Comprehend(q, keep, i) ==
  IF i > Len(q) THEN <<>>
  ELSE (IF keep[i] THEN <<q[i]>> ELSE <<>>) \o Comprehend(q, keep, i + 1)

\* ------------------------------------------------- Schedule: projection
\* {tutor:self.tutors.index(tutor) for tutor in self.tutors}
MakeIndex(names) == [x \in Range(names) |-> IndexOf(names, x)]

\* [max_shifts_by_tutor[tutor] for tutor in self.tutors] and the like
ProjectList(dict, names) == [i \in 1..Len(names) |-> dict[names[i]]]

\* mutant: the two loops of the comprehension exchanged
ProjectAvailability_Transposed(availability, tutors, days) ==
  [j \in 1..Len(days) |-> [i \in 1..Len(tutors) |-> availability[tutors[i]][days[j]]]]

\* [[availability[tutor][day] for day in self.days] for tutor in self.tutors]
ProjectAvailability(availability, tutors, days) ==
  [i \in 1..Len(tutors) |-> [j \in 1..Len(days) |-> availability[tutors[i]][days[j]]]]

\* the keyword arguments of the Model(...) call
ModelArgs(g, tutors, days) ==
  [N_T |-> Len(tutors), N_D |-> Len(days),
   lp |-> g.min_tutors_ip, lv |-> g.min_tutors_v,
   s |-> g.min_tutor_shifts, sp |-> g.min_tutor_ip_shifts,
   S |-> ProjectList(g.max_shifts_by_tutor, tutors),
   m |-> ProjectList(g.mode_preference, tutors),
   a |-> ProjectAvailability(g.availability, tutors, days),
   fp |-> ProjectList(g.target_ip_fractions, days),
   fv |-> ProjectList(g.target_v_fractions, days),
   w1 |-> g.SHIFTS_weight, w2 |-> g.ALIGN_weight,
   w3 |-> g.DAY_PREF_weight, w4 |-> g.MODE_PREF_weight]

\* ------------------------------------------------------ Model: validation
\* the asserts of __set_decision_variables
ValidCounts(N_T, N_D) == N_T > 0 /\ N_D > 0

\* the asserts of __set_constraints
ValidConstraintArgs(N_T, N_D, e) ==
  /\ e.lp >= 0
  /\ e.lv >= 0
  /\ e.s >= 0
  /\ e.sp >= 0
  /\ Len(e.S) = N_T
  /\ \A t \in 1..N_T : e.S[t] >= 0
  /\ Len(e.a) = N_T
  /\ \A t \in 1..N_T : Len(e.a[t]) = N_D
  /\ \A t \in 1..N_T : \A d \in 1..N_D :
       e.a[t][d] \in {UNAVAILABLE, NOT_PREFERRED, PREFERRED}

\* mutant: the abs left out, 1-sum(fp)-sum(fv)<epsilon
FractionsSumToOne_OneSided(fp, fv) == FracUnit - SumSeq(fp) - SumSeq(fv) < epsilon

\* assert abs(1-sum(fp)-sum(fv))<epsilon
FractionsSumToOne(fp, fv) == Abs(FracUnit - SumSeq(fp) - SumSeq(fv)) < epsilon

\* assert w1>=0 ... assert w4>=0
WeightsValid(e) == e.w1 >= 0 /\ e.w2 >= 0 /\ e.w3 >= 0 /\ e.w4 >= 0

\* the asserts of __set_objective_function
ValidObjectiveArgs(N_T, N_D, e) ==
  /\ Len(e.m) = N_T
  /\ \A t \in 1..N_T : e.m[t] \in {PREFER_VIRTUAL, NO_PREFERENCE, PREFER_IN_PERSON}
  /\ Len(e.fp) = N_D
  /\ \A d \in 1..N_D : 0 <= e.fp[d]
  /\ Len(e.fv) = N_D
  /\ \A d \in 1..N_D : 0 <= e.fv[d]
  /\ FractionsSumToOne(e.fp, e.fv)
  /\ WeightsValid(e)

\* ----------------------------------------------------- Model: constraints
\* A constraint added with model.addConstr; t or d is 0 where it does not apply.
Constr(kind, t, d, rhs) == [kind |-> kind, t |-> t, d |-> d, rhs |-> rhs]

\* mutant: the ceiling off by one, Xp_t+Xv_t<=S[t]+1
CeilingConstrs_OffByOne(t, S) == {Constr("ceiling", t, 0, S[t] + 1)}

\* Xp_t+Xv_t<=S[t]
CeilingConstrs(t, S) == {Constr("ceiling", t, 0, S[t])}

\* mutant: the in-person floor is put on the total, Xp_t+Xv_t>=sp
TutorFloorConstrs_TotalForIp(t, s, sp) ==
  {Constr("min_shifts", t, 0, s), Constr("min_shifts", t, 0, sp)}

\* Xp_t+Xv_t>=s and Xp_t>=sp
TutorFloorConstrs(t, s, sp) ==
  {Constr("min_shifts", t, 0, s), Constr("min_ip_shifts", t, 0, sp)}

\* mutant: the else branch (no two modes on one day) left out
TutorDayConstrs_NoElse(t, d, a) ==
  IF a[t][d] = UNAVAILABLE
  THEN {Constr("ip_zero", t, d, 0), Constr("v_zero", t, d, 0)}
  ELSE {}

\* mutant: every level below PREFERRED taken as unavailable
TutorDayConstrs_OnlyPreferred(t, d, a) ==
  IF a[t][d] # PREFERRED
  THEN {Constr("ip_zero", t, d, 0), Constr("v_zero", t, d, 0)}
  ELSE {Constr("one_mode", t, d, 1)}

\* mutant: the two modes of a day allowed together, xp+xv<=2
TutorDayConstrs_AtMostTwo(t, d, a) ==
  IF a[t][d] = UNAVAILABLE
  THEN {Constr("ip_zero", t, d, 0), Constr("v_zero", t, d, 0)}
  ELSE {Constr("one_mode", t, d, 2)}

\* the if/else on a[t][d]==Model.UNAVAILABLE
TutorDayConstrs(t, d, a) ==
  IF a[t][d] = UNAVAILABLE
  THEN {Constr("ip_zero", t, d, 0), Constr("v_zero", t, d, 0)}
  ELSE {Constr("one_mode", t, d, 1)}

\* mutant: the in-person floor used for both modes
DayFloorConstrs_LpTwice(d, lp, lv) ==
  {Constr("day_ip", 0, d, lp), Constr("day_v", 0, d, lp)}

\* sum(self[IN_PERSON,:,d])>=lp and sum(self[VIRTUAL,:,d])>=lv
DayFloorConstrs(d, lp, lv) ==
  {Constr("day_ip", 0, d, lp), Constr("day_v", 0, d, lv)}

\* every constraint __set_constraints adds
Constraints(N_T, N_D, e) ==
  UNION ({CeilingConstrs(t, e.S) : t \in 1..N_T}
         \cup {TutorFloorConstrs(t, e.s, e.sp) : t \in 1..N_T}
         \cup {TutorDayConstrs(t, d, e.a) : t \in 1..N_T, d \in 1..N_D}
         \cup {DayFloorConstrs(d, e.lp, e.lv) : d \in 1..N_D})

\* ---------------------------------------- an assignment of the variables
\* x.xp[t][d], x.xv[t][d] \in {0,1}
Assignments(N_T, N_D) ==
  [xp : [1..N_T -> [1..N_D -> {0, 1}]], xv : [1..N_T -> [1..N_D -> {0, 1}]]]

RowSum(mat, t) == SumSeq(mat[t])                           \* sum(self[mode,t,:])
ColSum(mat, d) == SumSeq([t \in 1..Len(mat) |-> mat[t][d]])  \* sum(self[mode,:,d])
Total(mat) == SumSeq([t \in 1..Len(mat) |-> RowSum(mat, t)])

\* whether assignment x satisfies constraint c
Sat(c, x) ==
  CASE c.kind = "ceiling" -> RowSum(x.xp, c.t) + RowSum(x.xv, c.t) <= c.rhs
    [] c.kind = "min_shifts" -> RowSum(x.xp, c.t) + RowSum(x.xv, c.t) >= c.rhs
    [] c.kind = "min_ip_shifts" -> RowSum(x.xp, c.t) >= c.rhs
    [] c.kind = "ip_zero" -> x.xp[c.t][c.d] = c.rhs
    [] c.kind = "v_zero" -> x.xv[c.t][c.d] = c.rhs
    [] c.kind = "one_mode" -> x.xp[c.t][c.d] + x.xv[c.t][c.d] <= c.rhs
    [] c.kind = "day_ip" -> ColSum(x.xp, c.d) >= c.rhs
    [] c.kind = "day_v" -> ColSum(x.xv, c.d) >= c.rhs

FeasibleSet(N_T, N_D, cs) == {x \in Assignments(N_T, N_D) : \A c \in cs : Sat(c, x)}

\* ------------------------------------------------------- Model: objective
\* The four terms; o holds the arguments a, m, fp, fv, w1..w4.
ShiftsTerm(x) == Total(x.xp) + Total(x.xv)                 \* X

\* -3*X+4*sum(a[t][d]*x[t][d]); a is in halves, so 4*a is 2*a here
DayPrefTerm(N_T, N_D, o, x) ==
  -3 * ShiftsTerm(x)
  + 2 * SumSeq([t \in 1..N_T |->
          SumSeq([d \in 1..N_D |-> o.a[t][d] * (x.xp[t][d] + x.xv[t][d])])])

\* mutant: the two modes exchanged, sum((xv[t][d]-xp[t][d])*m[t])
ModePrefTerm_Exchanged(N_T, N_D, o, x) ==
  SumSeq([t \in 1..N_T |->
    SumSeq([d \in 1..N_D |-> (x.xv[t][d] - x.xp[t][d]) * o.m[t]])])

\* sum((xp[t][d]-xv[t][d])*m[t])
ModePrefTerm(N_T, N_D, o, x) ==
  SumSeq([t \in 1..N_T |->
    SumSeq([d \in 1..N_D |-> (x.xp[t][d] - x.xv[t][d]) * o.m[t]])])

\* mutant: the alignment term left out of the objective
AlignPenalty_Zero(N_D, o, x) == 0

\* -N_T * FracUnit^2 * ALIGN: the sum of squared deviations, in fraction units
AlignPenalty(N_D, o, x) ==
  LET X == ShiftsTerm(x)
      dp(d) == X * o.fp[d] - FracUnit * ColSum(x.xp, d)
      dv(d) == X * o.fv[d] - FracUnit * ColSum(x.xv, d)
  IN SumSeq([d \in 1..N_D |-> dp(d) * dp(d) + dv(d) * dv(d)])

\* w1*X+w2*ALIGN+w3*DAY_PREF+w4*MODE_PREF as the exact rational
\* whole - rem/(N_T*FracUnit^2), with 0 <= rem < N_T*FracUnit^2
ObjectiveValue(N_T, N_D, o, x) ==
  LET den == N_T * FracUnit * FracUnit
      pen == o.w2 * AlignPenalty(N_D, o, x)
      lin == o.w1 * ShiftsTerm(x) + o.w3 * DayPrefTerm(N_T, N_D, o, x)
             + o.w4 * ModePrefTerm(N_T, N_D, o, x)
  IN [whole |-> lin - (pen \div den), rem |-> pen % den]

\* v >= u for two objective values
ObjGeq(v, u) == v.whole > u.whole \/ (v.whole = u.whole /\ v.rem <= u.rem)

\* ----------------------------------------------------------- Model: solve
\* model.optimize(): the assignments that attain the maximum of the objective
\* over the feasible set (empty when the program is infeasible)
Optimize(N_T, N_D, cs, o) ==
  LET F == FeasibleSet(N_T, N_D, cs)
      vals == {ObjectiveValue(N_T, N_D, o, x) : x \in F}
  IN IF F = {} THEN {}
     ELSE LET best == CHOOSE v \in vals : \A u \in vals : ObjGeq(v, u)
          IN {x \in F : ObjectiveValue(N_T, N_D, o, x) = best}


\* ------------------------------------------------ the caller's arguments
Input(tutors, days, lp, lv, s, sp, S, m, a, fp, fv, w) ==
  [tutors |-> tutors, days |-> days,
   min_tutors_ip |-> lp, min_tutors_v |-> lv,
   min_tutor_shifts |-> s, min_tutor_ip_shifts |-> sp,
   max_shifts_by_tutor |-> S, mode_preference |-> m, availability |-> a,
   target_ip_fractions |-> fp, target_v_fractions |-> fv,
   SHIFTS_weight |-> w[1], ALIGN_weight |-> w[2],
   DAY_PREF_weight |-> w[3], MODE_PREF_weight |-> w[4]]

TwoTutors == {"Adem", "Bebby"}
TwoDays == {"Sun", "Mon"}
Quarter == FracUnit \div 4
Uniform == [d \in TwoDays |-> Quarter]

\* the Small Test cell
ScenarioA ==
  Input(<<"Adem", "Bebby", "Chel">>, <<"Sun", "Mon">>, 0, 0, 0, 0,
        [t \in {"Adem", "Bebby", "Chel"} |-> IF t = "Chel" THEN 1 ELSE 2],
        [t \in {"Adem", "Bebby", "Chel"} |->
           IF t = "Chel" THEN NO_PREFERENCE ELSE PREFER_VIRTUAL],
        [t \in {"Adem", "Bebby", "Chel"} |->
           [d \in TwoDays |-> IF d = "Sun" THEN NOT_PREFERRED ELSE PREFERRED]],
        [d \in TwoDays |-> FracUnit \div 2], [d \in TwoDays |-> 0],
        <<1, 1, 1, 100>>)

\* two tutors, two days, fixed soft inputs
HardInput(lp, lv, s, sp, S, a) ==
  Input(<<"Adem", "Bebby">>, <<"Sun", "Mon">>, lp, lv, s, sp, S,
        [t \in TwoTutors |-> IF t = "Adem" THEN PREFER_IN_PERSON ELSE PREFER_VIRTUAL],
        a, Uniform, Uniform, <<1, 1, 1, 1>>)

\* every pattern of UNAVAILABLE / PREFERRED cells
Patterns == [TwoTutors -> [TwoDays -> {UNAVAILABLE, PREFERRED}]]

\* ceilings that leave one tutor short, or neither
SomeCeilings ==
  {[t \in TwoTutors |-> IF t = "Adem" THEN c ELSE MaxCeiling] : c \in {0, 1, MaxCeiling}}

\* the hard-constraint inputs within the bounds: the daily floors, the
\* per-tutor floors and the ceilings, each varied over every pattern
HardInputs ==
  {HardInput(lp, lv, 0, 0, S, a) :
     lp \in 0..MaxFloor, lv \in 0..MaxFloor, S \in SomeCeilings, a \in Patterns}
  \cup {HardInput(0, 0, s, sp, S, a) :
     s \in 0..MaxMinShifts, sp \in 0..MaxMinShifts, S \in SomeCeilings, a \in Patterns}
  \cup {HardInput(0, 0, 0, 0, S, a) : S \in [TwoTutors -> 0..MaxCeiling], a \in Patterns}

WeightProfiles == {<<1, 1, 1, 1>>, <<3, 2, 1, 1>>, <<1, 1, 1, 100>>}
FractionProfiles ==
  {<<Uniform, Uniform>>,
   <<[d \in TwoDays |-> IF d = "Sun" THEN FracUnit \div 2 ELSE FracUnit \div 2 - 1],
     [d \in TwoDays |-> 0]>>}
ListOrders ==
  {<<(<<"Adem", "Bebby">>), (<<"Sun", "Mon">>)>>,
   <<(<<"Bebby", "Adem">>), (<<"Mon", "Sun">>)>>}
DayRows ==
  {[d \in TwoDays |-> IF d = "Sun" THEN NOT_PREFERRED ELSE PREFERRED],
   [d \in TwoDays |-> IF d = "Sun" THEN PREFERRED ELSE UNAVAILABLE]}

\* two tutors, two days: the soft inputs varied, one tutor with a low ceiling
SoftInputs ==
  {Input(l[1], l[2], 0, 0, 0, 0,
         [t \in TwoTutors |-> IF t = "Adem" THEN c ELSE MaxCeiling],
         m, a, f[1], f[2], w) :
     l \in ListOrders, c \in {0, 1},
     m \in {[t \in TwoTutors |-> v] : v \in {PREFER_VIRTUAL, NO_PREFERENCE, PREFER_IN_PERSON}},
     a \in [TwoTutors -> DayRows], f \in FractionProfiles, w \in WeightProfiles}

\* all weights 0: every feasible assignment is an optimum
ZeroWeightInputs ==
  {Input(<<"Bebby", "Adem">>, <<"Mon", "Sun">>, 0, 0, 0, 0,
         [t \in TwoTutors |-> IF t = "Adem" THEN c ELSE MaxCeiling],
         [t \in TwoTutors |-> PREFER_IN_PERSON], a, Uniform, Uniform, <<0, 0, 0, 0>>) :
     c \in {0, 1}, a \in [TwoTutors -> DayRows]}

\* a valid input, and the ways one argument of it can be invalid
Base ==
  Input(<<"Adem", "Bebby">>, <<"Sun", "Mon">>, 0, 0, 0, 0,
        [t \in TwoTutors |-> 1], [t \in TwoTutors |-> NO_PREFERENCE],
        [t \in TwoTutors |-> [d \in TwoDays |-> PREFERRED]],
        Uniform, Uniform, <<1, 1, 1, 1>>)

InvalidInputs ==
  {[Base EXCEPT !.tutors = q] : q \in {<<"Adem", "Adem">>, <<"Adem", "Bebby", "Adem">>, <<>>}}
  \cup {[Base EXCEPT !.days = q] : q \in {<<"Sun", "Sun">>, <<"Mon", "Sun", "Mon">>, <<>>}}
  \cup {[Base EXCEPT !.availability[t][d] = v] :
          t \in TwoTutors, d \in TwoDays, v \in {-1, PREFERRED + 1}}
  \cup {[Base EXCEPT !.target_ip_fractions["Sun"] = Quarter + k] : k \in {-4, -2, 2, 4}}
  \cup {[Base EXCEPT !.target_v_fractions["Mon"] = Quarter + k] : k \in {-4, -2, 2, 4}}
  \cup {[Base EXCEPT !.target_ip_fractions = [d \in TwoDays |-> IF d = "Sun" THEN -Quarter ELSE 3 * Quarter]]}
  \cup {[Base EXCEPT !.target_v_fractions = [d \in TwoDays |-> IF d = "Sun" THEN -Quarter ELSE 3 * Quarter]]}
  \cup {[Base EXCEPT !.SHIFTS_weight = -1], [Base EXCEPT !.ALIGN_weight = -1],
        [Base EXCEPT !.DAY_PREF_weight = -1], [Base EXCEPT !.MODE_PREF_weight = -1]}
  \cup {[Base EXCEPT !.min_tutors_ip = -1], [Base EXCEPT !.min_tutors_v = -1],
        [Base EXCEPT !.min_tutor_shifts = -1], [Base EXCEPT !.min_tutor_ip_shifts = -1]}
  \cup {[Base EXCEPT !.max_shifts_by_tutor[t] = -1] : t \in TwoTutors}
  \cup {[Base EXCEPT !.mode_preference[t] = v] : t \in TwoTutors, v \in {-2, 2}}

MixedRows == DayRows \cup {[d \in TwoDays |-> NOT_PREFERRED]}

\* two tutors, two days: floors and availability levels varied together with
\* the mode preferences and the weights
MixedInputs ==
  {Input(<<"Adem", "Bebby">>, <<"Sun", "Mon">>, lp, lv, s, 0,
         [t \in TwoTutors |-> IF t = "Adem" THEN 1 ELSE MaxCeiling],
         [t \in TwoTutors |-> m], a, Uniform, Uniform, w) :
     lp \in 0..MaxFloor, lv \in 0..MaxFloor, s \in 0..MaxMinShifts,
     m \in {PREFER_VIRTUAL, NO_PREFERENCE, PREFER_IN_PERSON},
     a \in [TwoTutors -> MixedRows], w \in {<<1, 1, 1, 1>>, <<1, 1, 1, 100>>}}

Inputs ==
  HardInputs \cup SoftInputs \cup ZeroWeightInputs \cup MixedInputs
  \cup InvalidInputs \cup {ScenarioA}

\* arguments a caller may pass to the queries
Modes == {IN_PERSON, VIRTUAL, EITHER, EITHER + 1}
TutorArgs(g) == Range(g.tutors) \cup {"Zed"}
DayArgs(g) == Range(g.days) \cup {"Fri"}

\* ------------------------------------------------------------------ state
VARIABLES
  pc,             \* position of the caller: in Schedule.__init__, or after it
  raisedIn,       \* the method whose assert ended the construction, or ""
  args,           \* the arguments given to Schedule(...)
  tutors, days,               \* Schedule.tutors, Schedule.days
  tutor_index, day_index,     \* Schedule.__tutor_index, Schedule.__day_index
  margs,          \* the arguments of the Model(...) call, <<>> before the call
  N_T, N_D, status,           \* Model.N_T, Model.N_D, Model.status
  numVars,        \* variables created in the gurobipy model
  constrs,        \* constraints added to the gurobipy model
  objective,      \* <<o>> once setObjective has been called, <<>> before
  optimizeCalls,  \* number of model.optimize() calls
  xp, xv,         \* the solved values x.X of Model.__xp, Model.__xv
  call, ret       \* the last query and what it gave

vars == <<pc, raisedIn, args, tutors, days, tutor_index, day_index, margs, N_T, N_D,
          status, numVars, constrs, objective, optimizeCalls, xp, xv, call, ret>>

facadeVars == <<tutors, days, tutor_index, day_index>>
engineVars == <<N_T, N_D, status, numVars, constrs, objective, optimizeCalls, xp, xv>>

NoCall == [op |-> "none", mode |-> -1, tutor |-> "", day |-> ""]
Raise(msg) == [raised |-> TRUE, val |-> msg]
Return(v) == [raised |-> FALSE, val |-> v]

Init ==
  /\ args \in Inputs
  /\ pc = "start"
  /\ raisedIn = ""
  /\ tutors = <<>> /\ days = <<>>
  /\ tutor_index = <<>> /\ day_index = <<>>
  /\ margs = <<>>
  /\ N_T = 0 /\ N_D = 0 /\ status = LOADING
  /\ numVars = 0 /\ constrs = {} /\ objective = <<>> /\ optimizeCalls = 0
  /\ xp = <<>> /\ xv = <<>>
  /\ call = NoCall /\ ret = Return(NoneVal)

\* ------------------------------------------------------ Schedule.__init__
NoRepeats(names, index) == Cardinality(DOMAIN index) = Len(names)

\* the facade's own part: the lists, the index tables and their asserts; it
\* ends by evaluating the arguments of the Model(...) call
ScheduleInit ==
  /\ pc = "start"
  /\ tutors' = args.tutors
  /\ tutor_index' = MakeIndex(args.tutors)
  /\ IF ~NoRepeats(args.tutors, MakeIndex(args.tutors))
     THEN /\ pc' = "raised" /\ raisedIn' = "Schedule.__init__"
          /\ UNCHANGED <<days, day_index, margs>>
     ELSE /\ days' = args.days
          /\ day_index' = MakeIndex(args.days)
          /\ IF ~NoRepeats(args.days, MakeIndex(args.days))
             THEN /\ pc' = "raised" /\ raisedIn' = "Schedule.__init__"
                  /\ UNCHANGED margs
             ELSE /\ margs' = <<ModelArgs(args, args.tutors, args.days)>>
                  /\ pc' = "Model.__init__" /\ UNCHANGED raisedIn
  /\ UNCHANGED <<args, engineVars, call, ret>>

\* ---------------------------------------------------------- Model.__init__
\* self.model = gurobipy.Model(""); self.status = LOADING; self.N_T, self.N_D
ModelInit ==
  /\ pc = "Model.__init__"
  /\ status' = LOADING
  /\ N_T' = margs[1].N_T /\ N_D' = margs[1].N_D
  /\ pc' = "__set_decision_variables"
  /\ UNCHANGED <<raisedIn, args, facadeVars, margs, numVars, constrs, objective,
                 optimizeCalls, xp, xv, call, ret>>

SetDecisionVariables ==
  /\ pc = "__set_decision_variables"
  /\ IF ~ValidCounts(N_T, N_D)
     THEN /\ pc' = "raised" /\ raisedIn' = "__set_decision_variables"
          /\ UNCHANGED numVars
     ELSE /\ numVars' = numVars + 2 * N_T * N_D
          /\ pc' = "__set_constraints" /\ UNCHANGED raisedIn
  /\ UNCHANGED <<args, facadeVars, margs, N_T, N_D, status, constrs, objective,
                 optimizeCalls, xp, xv, call, ret>>

\* mutant: the asserts placed after the loops that add the constraints
SetConstraints_AssertLast ==
  /\ pc = "__set_constraints"
  /\ constrs' = constrs \cup Constraints(N_T, N_D, margs[1])
  /\ IF ~ValidConstraintArgs(N_T, N_D, margs[1])
     THEN pc' = "raised" /\ raisedIn' = "__set_constraints"
     ELSE pc' = "__set_objective_function" /\ UNCHANGED raisedIn
  /\ UNCHANGED <<args, facadeVars, margs, N_T, N_D, status, numVars, objective,
                 optimizeCalls, xp, xv, call, ret>>

SetConstraints ==
  /\ pc = "__set_constraints"
  /\ IF ~ValidConstraintArgs(N_T, N_D, margs[1])
     THEN /\ pc' = "raised" /\ raisedIn' = "__set_constraints"
          /\ UNCHANGED constrs
     ELSE /\ constrs' = constrs \cup Constraints(N_T, N_D, margs[1])
          /\ pc' = "__set_objective_function" /\ UNCHANGED raisedIn
  /\ UNCHANGED <<args, facadeVars, margs, N_T, N_D, status, numVars, objective,
                 optimizeCalls, xp, xv, call, ret>>

SetObjectiveFunction ==
  /\ pc = "__set_objective_function"
  /\ IF ~ValidObjectiveArgs(N_T, N_D, margs[1])
     THEN /\ pc' = "raised" /\ raisedIn' = "__set_objective_function"
          /\ UNCHANGED objective
     ELSE /\ objective' = <<[a |-> margs[1].a, m |-> margs[1].m,
                             fp |-> margs[1].fp, fv |-> margs[1].fv,
                             w1 |-> margs[1].w1, w2 |-> margs[1].w2,
                             w3 |-> margs[1].w3, w4 |-> margs[1].w4]>>
          /\ pc' = "__solve" /\ UNCHANGED raisedIn
  /\ UNCHANGED <<args, facadeVars, margs, N_T, N_D, status, numVars, constrs,
                 optimizeCalls, xp, xv, call, ret>>

\* mutant: the status only set on success
StatusOf_KeepsLoading(grb) == IF grb = "OPTIMAL" THEN OPTIMAL ELSE LOADING

\* Model.OPTIMAL if self.model.status==gurobipy.GRB.OPTIMAL else Model.INFEASIBLE
StatusOf(grb) == IF grb = "OPTIMAL" THEN OPTIMAL ELSE INFEASIBLE

\* optimize() and the status assignment; Schedule.__init__ returns after it
Solve ==
  /\ pc = "__solve"
  /\ optimizeCalls' = optimizeCalls + 1
  /\ LET opt == Optimize(N_T, N_D, constrs, objective[1])
     IN IF opt = {}
        THEN /\ status' = StatusOf("INFEASIBLE")
             /\ UNCHANGED <<xp, xv>>
        ELSE /\ status' = StatusOf("OPTIMAL")
             /\ \E x \in opt : xp' = x.xp /\ xv' = x.xv
  /\ pc' = "ready"
  /\ UNCHANGED <<raisedIn, args, facadeVars, margs, N_T, N_D, numVars, constrs,
                 objective, call, ret>>

\* ------------------------------------------------------ Model.__getitem__
\* self[mode,t,d] for one tutor index and one day index, after construction
GetItem(mode, t, d) ==
  IF status = INFEASIBLE THEN -1     \* None: equal to neither 0 nor 1
  ELSE IF mode = IN_PERSON THEN xp[t][d] ELSE xv[t][d]

\* ------------------------------------------------------ Schedule: queries
schedule_found == status = OPTIMAL

\* mutant: the raise left out
validate_schedule_Silent == ""

\* each validator: "" when it passes, else the message of the exception
validate_schedule == IF ~schedule_found THEN "Schedule not found" ELSE ""

\* mutant: a range test that lets the value after EITHER through
validate_mode_OffByOne(mode) ==
  IF mode < IN_PERSON \/ mode > EITHER + 1
  THEN "The provided mode is not one of Schedule.IN_PERSON, Schedule.VIRTUAL, or Schedule.EITHER"
  ELSE ""

validate_mode(mode) ==
  IF mode # IN_PERSON /\ mode # VIRTUAL /\ mode # EITHER
  THEN "The provided mode is not one of Schedule.IN_PERSON, Schedule.VIRTUAL, or Schedule.EITHER"
  ELSE ""

validate_tutor(tutor) ==
  IF tutor \notin Range(tutors) THEN "not a recognized tutor" ELSE ""

validate_day(day) ==
  IF day \notin Range(days) THEN "not a recognized day" ELSE ""

\* the first validator of a list that fails, "" if none does
RECURSIVE FirstFailure(_)
FirstFailure(msgs) ==
  IF msgs = <<>> THEN ""
  ELSE IF Head(msgs) # "" THEN Head(msgs) ELSE FirstFailure(Tail(msgs))

check(mode, tutor, day) ==
  LET failure == FirstFailure(<<validate_mode(mode), validate_tutor(tutor),
                                validate_day(day), validate_schedule>>)
  IN IF failure # "" THEN Raise(failure)
     ELSE LET t == tutor_index[tutor]
              d == day_index[day]
          IN IF mode = IN_PERSON THEN Return(GetItem(IN_PERSON, t, d) = 1)
             ELSE IF mode = VIRTUAL THEN Return(GetItem(VIRTUAL, t, d) = 1)
             ELSE Return(GetItem(IN_PERSON, t, d) = 1 \/ GetItem(VIRTUAL, t, d) = 1)

\* mutant: "and" for "or" in the branch of EITHER
get_tutor_schedule_EitherBoth(mode, tutor) ==
  LET failure == FirstFailure(<<validate_mode(mode), validate_tutor(tutor),
                                validate_schedule>>)
  IN IF failure # "" THEN Raise(failure)
     ELSE LET t == tutor_index[tutor]
              keep == [d \in 1..Len(days) |->
                         IF mode = IN_PERSON THEN GetItem(IN_PERSON, t, d) = 1
                         ELSE IF mode = VIRTUAL THEN GetItem(VIRTUAL, t, d) = 1
                         ELSE GetItem(IN_PERSON, t, d) = 1 /\ GetItem(VIRTUAL, t, d) = 1]
          IN Return(Comprehend(days, keep, 1))

get_tutor_schedule(mode, tutor) ==
  LET failure == FirstFailure(<<validate_mode(mode), validate_tutor(tutor),
                                validate_schedule>>)
  IN IF failure # "" THEN Raise(failure)
     ELSE LET t == tutor_index[tutor]
              keep == [d \in 1..Len(days) |->
                         IF mode = IN_PERSON THEN GetItem(IN_PERSON, t, d) = 1
                         ELSE IF mode = VIRTUAL THEN GetItem(VIRTUAL, t, d) = 1
                         ELSE GetItem(IN_PERSON, t, d) = 1 \/ GetItem(VIRTUAL, t, d) = 1]
          IN Return(Comprehend(days, keep, 1))

get_day_schedule(mode, day) ==
  LET failure == FirstFailure(<<validate_mode(mode), validate_day(day),
                                validate_schedule>>)
  IN IF failure # "" THEN Raise(failure)
     ELSE LET d == day_index[day]
              keep == [t \in 1..Len(tutors) |->
                         IF mode = IN_PERSON THEN GetItem(IN_PERSON, t, d) = 1
                         ELSE IF mode = VIRTUAL THEN GetItem(VIRTUAL, t, d) = 1
                         ELSE GetItem(IN_PERSON, t, d) = 1 \/ GetItem(VIRTUAL, t, d) = 1]
          IN Return(Comprehend(tutors, keep, 1))

\* ------------------------------------------------- the caller's queries
Returned(c, r) ==
  /\ call' = c /\ ret' = r /\ pc' = "returned"
  /\ UNCHANGED <<raisedIn, args, facadeVars, margs, engineVars>>

ScheduleFound ==
  /\ pc = "ready"
  /\ Returned([op |-> "schedule_found", mode |-> -1, tutor |-> "", day |-> ""],
              Return(schedule_found))

Check ==
  /\ pc = "ready"
  /\ \E mode \in Modes, tutor \in TutorArgs(args), day \in DayArgs(args) :
       Returned([op |-> "check", mode |-> mode, tutor |-> tutor, day |-> day],
                check(mode, tutor, day))

GetTutorSchedule ==
  /\ pc = "ready"
  /\ \E mode \in Modes, tutor \in TutorArgs(args) :
       Returned([op |-> "get_tutor_schedule", mode |-> mode, tutor |-> tutor, day |-> ""],
                get_tutor_schedule(mode, tutor))

GetDaySchedule ==
  /\ pc = "ready"
  /\ \E mode \in Modes, day \in DayArgs(args) :
       Returned([op |-> "get_day_schedule", mode |-> mode, tutor |-> "", day |-> day],
                get_day_schedule(mode, day))

\* the caller takes the result (or catches the exception) and goes on
Resume ==
  /\ pc = "returned"
  /\ pc' = "ready"
  /\ call' = NoCall /\ ret' = Return(NoneVal)
  /\ UNCHANGED <<raisedIn, args, facadeVars, margs, engineVars>>

Next ==
  \/ ScheduleInit
  \/ ModelInit
  \/ SetDecisionVariables
  \/ SetConstraints
  \/ SetObjectiveFunction
  \/ Solve
  \/ ScheduleFound
  \/ Check
  \/ GetTutorSchedule
  \/ GetDaySchedule
  \/ Resume

Spec == Init /\ [][Next]_vars

\* ================================================================ claims
Constructed == pc \in {"ready", "returned"}

\* an input that passes every assert of the construction
ValidInput(g) ==
  /\ NoRepeats(g.tutors, MakeIndex(g.tutors))
  /\ NoRepeats(g.days, MakeIndex(g.days))
  /\ LET e == ModelArgs(g, g.tutors, g.days)
     IN /\ ValidCounts(e.N_T, e.N_D)
        /\ ValidConstraintArgs(e.N_T, e.N_D, e)
        /\ ValidObjectiveArgs(e.N_T, e.N_D, e)

\* C1: whenever a schedule was found, every tutor works (in either mode) on at
\* most max_shifts_by_tutor[t] and at least min_tutor_shifts days, and works
\* in person on at least min_tutor_ip_shifts days.
C1_TutorShiftBounds ==
  schedule_found =>
    \A t \in Range(tutors) :
      /\ Len(get_tutor_schedule(EITHER, t).val) <= args.max_shifts_by_tutor[t]
      /\ Len(get_tutor_schedule(EITHER, t).val) >= args.min_tutor_shifts
      /\ Len(get_tutor_schedule(IN_PERSON, t).val) >= args.min_tutor_ip_shifts

\* a tutor with both floors at 1 and a ceiling above them, asked for the days
\* worked in either mode and found at the ceiling
C1_Witness ==
  /\ pc = "returned" /\ call.op = "get_tutor_schedule" /\ call.mode = EITHER
  /\ ~ret.raised
  /\ args.min_tutor_shifts = 1 /\ args.min_tutor_ip_shifts = 1
  /\ args.max_shifts_by_tutor[call.tutor] = 2
  /\ Len(ret.val) = 2
  /\ Len(get_tutor_schedule(IN_PERSON, call.tutor).val) = 1

\* C2: whenever a schedule was found, a tutor is assigned in no mode on a day
\* the caller's availability marks UNAVAILABLE for that tutor name and day name.
C2_UnavailableNeverAssigned ==
  schedule_found =>
    \A t \in Range(tutors) : \A d \in Range(days) :
      args.availability[t][d] = UNAVAILABLE =>
        \A mode \in {IN_PERSON, VIRTUAL, EITHER} : check(mode, t, d) = Return(FALSE)

\* check answered FALSE for an unavailable pair while the same tutor works the
\* other day and the other tutor works this day
C2_Witness ==
  /\ pc = "returned" /\ call.op = "check" /\ call.mode = EITHER
  /\ ret = Return(FALSE)
  /\ args.availability[call.tutor][call.day] = UNAVAILABLE
  /\ \E d \in Range(days) : d # call.day /\ check(EITHER, call.tutor, d) = Return(TRUE)
  /\ \E t \in Range(tutors) :
       /\ t # call.tutor /\ check(EITHER, t, call.day) = Return(TRUE)
       /\ \E d \in Range(days) : args.availability[t][d] = UNAVAILABLE

\* C3: whenever a schedule was found, no tutor is assigned both in person and
\* virtually on the same day.
C3_AtMostOneMode ==
  schedule_found =>
    \A t \in Range(tutors) : \A d \in Range(days) :
      ~(check(IN_PERSON, t, d).val /\ check(VIRTUAL, t, d).val)

\* a tutor with room for two shifts, assigned in person on a day and asked about
C3_Witness ==
  /\ pc = "returned" /\ call.op = "check" /\ call.mode = IN_PERSON
  /\ ret = Return(TRUE)
  /\ check(VIRTUAL, call.tutor, call.day) = Return(FALSE)
  /\ args.max_shifts_by_tutor[call.tutor] = 2
  /\ Len(get_tutor_schedule(EITHER, call.tutor).val) = 1

\* C4: whenever a schedule was found, every day has at least min_tutors_ip
\* tutors in person and at least min_tutors_v tutors virtual.
C4_DailyFloors ==
  schedule_found =>
    \A d \in Range(days) :
      /\ Len(get_day_schedule(IN_PERSON, d).val) >= args.min_tutors_ip
      /\ Len(get_day_schedule(VIRTUAL, d).val) >= args.min_tutors_v

\* both floors at 1 and a day's in-person list holding exactly one tutor
C4_Witness ==
  /\ pc = "returned" /\ call.op = "get_day_schedule" /\ call.mode = IN_PERSON
  /\ ~ret.raised
  /\ args.min_tutors_ip = 1 /\ args.min_tutors_v = 1
  /\ Len(ret.val) = 1
  /\ Len(get_day_schedule(VIRTUAL, call.day).val) = 1

\* C5: in the Small Test the construction ends optimal and every optimum is:
\* Adem and Bebby virtual on both days, Chel in person on Mon only.
C5_ScenarioAOptimum ==
  args = ScenarioA =>
    /\ pc # "raised"
    /\ Constructed =>
         /\ schedule_found
         /\ \A t \in Range(tutors) : \A d \in Range(days) :
              /\ check(IN_PERSON, t, d) = Return(t = "Chel" /\ d = "Mon")
              /\ check(VIRTUAL, t, d) = Return(t \in {"Adem", "Bebby"})

\* the Small Test solved, and check asked whether Chel works Mon in person
C5_Witness ==
  /\ args = ScenarioA /\ pc = "returned"
  /\ call = [op |-> "check", mode |-> IN_PERSON, tutor |-> "Chel", day |-> "Mon"]
  /\ ret = Return(TRUE)
  /\ get_tutor_schedule(VIRTUAL, "Adem") = Return(<<"Sun", "Mon">>)

\* the per-day headcounts <<in person Sun, in person Mon, virtual Sun, virtual Mon>>
DayCounts ==
  <<Len(get_day_schedule(IN_PERSON, "Sun").val), Len(get_day_schedule(IN_PERSON, "Mon").val),
    Len(get_day_schedule(VIRTUAL, "Sun").val), Len(get_day_schedule(VIRTUAL, "Mon").val)>>

\* C6 as stated: in the Small Test the optimal schedule has 0 tutors in person
\* on Sun and 2 on Mon, and 2 virtual on Sun and 2 on Mon.
C6_Original ==
  (args = ScenarioA /\ Constructed) => (schedule_found /\ DayCounts = <<0, 2, 2, 2>>)

\* C6 as amended: in the Small Test the optimal schedule has 0 tutors in person
\* on Sun and 1 on Mon, and 2 virtual on Sun and 2 on Mon.
C6_ScenarioAHeadcounts ==
  (args = ScenarioA /\ Constructed) => (schedule_found /\ DayCounts = <<0, 1, 2, 2>>)

\* the Small Test solved, and the in-person list of Mon asked for
C6_Witness ==
  /\ args = ScenarioA /\ pc = "returned"
  /\ call = [op |-> "get_day_schedule", mode |-> IN_PERSON, tutor |-> "", day |-> "Mon"]
  /\ ret = Return(<<"Chel">>)

\* tutors whose availability on day d is not UNAVAILABLE
AvailableOn(g, d) == {t \in Range(g.tutors) : g.availability[t][d] # UNAVAILABLE}

\* an otherwise valid input whose in-person floor exceeds, on some day, the
\* number of tutors available that day
ScenarioB(g) ==
  /\ ValidInput(g)
  /\ \E d \in Range(g.days) : g.min_tutors_ip > Cardinality(AvailableOn(g, d))

\* C7: for such an input the construction does not raise, schedule_found()
\* is false, and every call of check, get_tutor_schedule, get_day_schedule raises.
C7_InfeasibleFloor ==
  ScenarioB(args) =>
    /\ pc # "raised"
    /\ Constructed =>
         /\ ~schedule_found
         /\ \A mode \in Modes : \A t \in TutorArgs(args) : \A d \in DayArgs(args) :
              /\ check(mode, t, d).raised
              /\ get_tutor_schedule(mode, t).raised
              /\ get_day_schedule(mode, d).raised
    /\ pc = "returned" =>
         IF call.op = "schedule_found" THEN ret = Return(FALSE) ELSE ret.raised

\* only the in-person floor is in the way: one day has no available tutor, the
\* other floors are 0, and check with a valid mode and known names has raised
C7_Witness ==
  /\ ScenarioB(args)
  /\ args.min_tutors_v = 0 /\ args.min_tutor_shifts = 0 /\ args.min_tutor_ip_shifts = 0
  /\ \A t \in Range(args.tutors) : args.max_shifts_by_tutor[t] > 0
  /\ pc = "returned" /\ call.op = "check" /\ call.mode = IN_PERSON
  /\ call.tutor \in Range(tutors) /\ call.day \in Range(days)
  /\ Cardinality(AvailableOn(args, call.day)) = Len(tutors)
  /\ ret = Raise("Schedule not found")

\* C8: whatever the weights, a tutor whose ceiling is 0 is in no schedule:
\* get_tutor_schedule is empty in every mode and no get_day_schedule lists the tutor.
C8_ZeroCeilingUnassigned ==
  schedule_found =>
    \A t \in Range(tutors) :
      args.max_shifts_by_tutor[t] = 0 =>
        \A mode \in {IN_PERSON, VIRTUAL, EITHER} :
          /\ get_tutor_schedule(mode, t) = Return(<<>>)
          /\ \A d \in Range(days) : t \notin Range(get_day_schedule(mode, d).val)

\* a tutor with ceiling 0 and a mode preference, under the dominant
\* mode-preference weight, asked for and found without a shift while the other
\* tutor works
C8_Witness ==
  /\ pc = "returned" /\ call.op = "get_tutor_schedule" /\ call.mode = EITHER
  /\ call.tutor \in Range(tutors)
  /\ args.max_shifts_by_tutor[call.tutor] = 0
  /\ args.mode_preference[call.tutor] = PREFER_IN_PERSON
  /\ args.MODE_PREF_weight = 100
  /\ ret = Return(<<>>)
  /\ \E t \in Range(tutors) : Len(get_tutor_schedule(EITHER, t).val) = 2

EngineMethods == {"__set_decision_variables", "__set_constraints", "__set_objective_function"}

\* C9 as stated: a construction that ends in a validation error of the engine
\* has created no decision variable and added no constraint.
C9_Original ==
  (pc = "raised" /\ raisedIn \in EngineMethods) => (numVars = 0 /\ constrs = {})

\* C9 as amended: a validation error is raised before the objective is set and
\* before the solver runs, with the status still loading; an error on the
\* counts precedes every variable and constraint, and an error on the
\* constraint inputs precedes every constraint.
C9_ValidationBeforeUse ==
  (pc = "raised" /\ raisedIn \in EngineMethods) =>
    /\ objective = <<>> /\ optimizeCalls = 0 /\ status = LOADING
    /\ raisedIn = "__set_decision_variables" => (numVars = 0 /\ constrs = {})
    /\ raisedIn = "__set_constraints" => constrs = {}

\* an invalid availability entry, rejected by __set_constraints after the
\* variables were created
C9_Witness ==
  /\ pc = "raised" /\ raisedIn = "__set_constraints"
  /\ numVars = 2 * N_T * N_D /\ numVars > 0
  /\ \E t \in Range(tutors) : \E d \in Range(days) :
       args.availability[t][d] \notin {UNAVAILABLE, NOT_PREFERRED, PREFERRED}

RepeatedName(q) == \E i, j \in 1..Len(q) : i # j /\ q[i] = q[j]

BadAvailability(g) ==
  \E t \in Range(g.tutors) : \E d \in Range(g.days) :
    g.availability[t][d] \notin {UNAVAILABLE, NOT_PREFERRED, PREFERRED}

\* the target fractions of the listed days sum to more than 10^-3 away from 1
FractionsOff(g) ==
  Abs(FracUnit - SumSeq(ProjectList(g.target_ip_fractions, g.days))
               - SumSeq(ProjectList(g.target_v_fractions, g.days))) > epsilon

NegativeWeight(g) ==
  g.SHIFTS_weight < 0 \/ g.ALIGN_weight < 0 \/ g.DAY_PREF_weight < 0 \/ g.MODE_PREF_weight < 0

\* C10: with a repeated tutor or day, an availability entry outside the three
\* levels, target fractions summing to more than 10^-3 away from 1, or a
\* negative weight, the construction never gets past the method that asserts
\* on that input: it yields no facade and the solver is never run.
C10_ConstructionRejects ==
  /\ (RepeatedName(args.tutors) \/ RepeatedName(args.days)) =>
       pc \in {"start", "raised"}
  /\ BadAvailability(args) =>
       pc \in {"start", "Model.__init__", "__set_decision_variables",
               "__set_constraints", "raised"}
  /\ (FractionsOff(args) \/ NegativeWeight(args)) =>
       pc \in {"start", "Model.__init__", "__set_decision_variables",
               "__set_constraints", "__set_objective_function", "raised"}
  /\ (RepeatedName(args.tutors) \/ RepeatedName(args.days) \/ BadAvailability(args)
      \/ FractionsOff(args) \/ NegativeWeight(args)) =>
       (optimizeCalls = 0 /\ status = LOADING /\ ~Constructed)

\* fractions that sum to more than 1 + 10^-3, nothing else wrong, rejected by
\* __set_objective_function
C10_Witness ==
  /\ pc = "raised" /\ raisedIn = "__set_objective_function"
  /\ FractionsOff(args)
  /\ SumSeq(ProjectList(args.target_ip_fractions, args.days))
       + SumSeq(ProjectList(args.target_v_fractions, args.days)) > FracUnit
  /\ ~NegativeWeight(args) /\ ~BadAvailability(args)
  /\ optimizeCalls = 0

\* whether the query c, as the caller issued it, is one that has to fail
MustRaise(c) ==
  \/ c.mode \notin {IN_PERSON, VIRTUAL, EITHER}
  \/ c.op \in {"check", "get_tutor_schedule"} /\ c.tutor \notin Range(args.tutors)
  \/ c.op \in {"check", "get_day_schedule"} /\ c.day \notin Range(args.days)
  \/ status # OPTIMAL

\* C11: on a constructed facade check, get_tutor_schedule and get_day_schedule
\* raise exactly when the mode is not one of the three, a supplied tutor or day
\* is not in the facade's list, or the status is not optimal; schedule_found()
\* never raises and tells whether the status is optimal.
C11_RaisesExactlyWhen ==
  pc = "returned" =>
    IF call.op = "schedule_found"
    THEN ret = Return(status = OPTIMAL)
    ELSE ret.raised <=> MustRaise(call)

\* an optimal schedule, a valid mode and a known day, and check raising only
\* because the tutor is unknown
C11_Witness ==
  /\ pc = "returned" /\ call.op = "check" /\ status = OPTIMAL
  /\ call.mode = EITHER /\ call.day \in Range(args.days)
  /\ call.tutor \notin Range(args.tutors)
  /\ ret = Raise("not a recognized tutor")

\* C12: whenever a schedule was found, the days of get_tutor_schedule(EITHER, t)
\* are the days of the in-person schedule together with those of the virtual
\* schedule, and are the days d for which check(EITHER, t, d) is true.
C12_EitherIsUnion ==
  schedule_found =>
    \A t \in Range(tutors) :
      /\ Range(get_tutor_schedule(EITHER, t).val)
           = Range(get_tutor_schedule(IN_PERSON, t).val)
             \cup Range(get_tutor_schedule(VIRTUAL, t).val)
      /\ Range(get_tutor_schedule(EITHER, t).val)
           = {d \in Range(days) : check(EITHER, t, d).val}

\* a tutor asked for the days worked in either mode who works one day in
\* person and the other virtually
C12_Witness ==
  /\ pc = "returned" /\ call.op = "get_tutor_schedule" /\ call.mode = EITHER
  /\ ~ret.raised /\ Len(ret.val) = 2
  /\ Len(get_tutor_schedule(IN_PERSON, call.tutor).val) = 1
  /\ Len(get_tutor_schedule(VIRTUAL, call.tutor).val) = 1

\* C13: whenever a schedule was found, get_tutor_schedule(mode, t) is the
\* caller's day list, in its order, restricted to the days with
\* check(mode, t, d) true, and get_day_schedule(mode, d) is the caller's tutor
\* list, in its order, restricted to the tutors with check(mode, t, d) true; so
\* d is in the one exactly when t is in the other.
C13_OrderedSubsequences ==
  schedule_found =>
    \A mode \in {IN_PERSON, VIRTUAL, EITHER} :
      /\ \A t \in Range(args.tutors) :
           get_tutor_schedule(mode, t)
             = Return(SelectSeq(args.days, LAMBDA d : check(mode, t, d).val))
      /\ \A d \in Range(args.days) :
           get_day_schedule(mode, d)
             = Return(SelectSeq(args.tutors, LAMBDA t : check(mode, t, d).val))
      /\ \A t \in Range(args.tutors) : \A d \in Range(args.days) :
           d \in Range(get_tutor_schedule(mode, t).val)
             <=> t \in Range(get_day_schedule(mode, d).val)

\* lists given in an order that is not the alphabetical one, and a day on which
\* both tutors work, listed in the caller's order
C13_Witness ==
  /\ pc = "returned" /\ call.op = "get_day_schedule" /\ call.mode = EITHER
  /\ args.tutors = <<"Bebby", "Adem">> /\ args.days = <<"Mon", "Sun">>
  /\ ret = Return(<<"Bebby", "Adem">>)
  /\ get_tutor_schedule(EITHER, "Bebby") = Return(<<"Mon", "Sun">>)

\* what the query c gives when it is asked in the current state
Answer(c) ==
  CASE c.op = "schedule_found" -> Return(schedule_found)
    [] c.op = "check" -> check(c.mode, c.tutor, c.day)
    [] c.op = "get_tutor_schedule" -> get_tutor_schedule(c.mode, c.tutor)
    [] c.op = "get_day_schedule" -> get_day_schedule(c.mode, c.day)

\* the status is loading until the construction is over and terminal after it
StatusFitsPosition ==
  IF Constructed THEN status \in {OPTIMAL, INFEASIBLE} ELSE status = LOADING

\* C14: the status starts as loading, changes once, in __solve, to optimal or
\* infeasible, and never again; after the construction no query, failing or
\* not, changes the status, the stored values or the facade's tables, and a
\* query asked again in the state it left gives the result it gave.
C14_StatusSetOnce ==
  [][/\ StatusFitsPosition /\ StatusFitsPosition'
     /\ status' # status =>
          (pc = "__solve" /\ status = LOADING /\ status' \in {OPTIMAL, INFEASIBLE})
     /\ Constructed =>
          (Constructed' /\ UNCHANGED <<status, xp, xv, facadeVars, optimizeCalls>>)
     /\ pc' = "returned" => (Answer(call) = ret)']_vars

\* after an infeasible construction a query has failed, and the status is
\* still the one __solve set in its single run
C14_Witness ==
  /\ pc = "returned" /\ call.op = "get_day_schedule" /\ call.mode = VIRTUAL
  /\ call.day \in Range(days)
  /\ ret = Raise("Schedule not found")
  /\ status = INFEASIBLE /\ optimizeCalls = 1

\* the input that agrees with g on the lists, the floors, the ceilings and the
\* UNAVAILABLE pairs, with every soft input at a fixed value: no mode
\* preference, every other level PREFERRED, all of the target on the first
\* day in person, all weights 0
Canonical(g) ==
  [g EXCEPT
     !.mode_preference = [t \in DOMAIN g.mode_preference |-> NO_PREFERENCE],
     !.availability =
       [t \in DOMAIN g.availability |->
          [d \in DOMAIN g.availability[t] |->
             IF g.availability[t][d] = UNAVAILABLE THEN UNAVAILABLE ELSE PREFERRED]],
     !.target_ip_fractions =
       [d \in DOMAIN g.target_ip_fractions |-> IF d = g.days[1] THEN FracUnit ELSE 0],
     !.target_v_fractions = [d \in DOMAIN g.target_v_fractions |-> 0],
     !.SHIFTS_weight = 0, !.ALIGN_weight = 0,
     !.DAY_PREF_weight = 0, !.MODE_PREF_weight = 0]

\* whether the construction from input g ends optimal
EndsOptimal(g) ==
  LET e == ModelArgs(g, g.tutors, g.days)
  IN Optimize(e.N_T, e.N_D, Constraints(e.N_T, e.N_D, e), e) # {}

\* C15: for a valid input, schedule_found() returns what it returns for the
\* input with the same lists, floors, ceilings and UNAVAILABLE pairs and fixed
\* soft inputs; so two valid constructions that agree on those return the same
\* value, whatever their weights, mode preferences, target fractions and
\* preferred / not-preferred levels.
C15_FeasibilityFromHardInputs ==
  (pc = "returned" /\ call.op = "schedule_found" /\ ValidInput(args)) =>
    /\ ValidInput(Canonical(args))
    /\ ret = Return(EndsOptimal(Canonical(args)))

\* schedule_found() returned TRUE for an input that needs a not-preferred cell
\* to meet a daily floor, under the dominant mode-preference weight
C15_Witness ==
  /\ pc = "returned" /\ call.op = "schedule_found" /\ ret = Return(TRUE)
  /\ args.min_tutors_ip = 1
  /\ args.MODE_PREF_weight = 100
  /\ \A t \in Range(tutors) : args.mode_preference[t] = PREFER_VIRTUAL
  /\ \E d \in Range(days) : \A t \in Range(tutors) :
       args.availability[t][d] \in {UNAVAILABLE, NOT_PREFERRED}

\* a day on which each floor alone can be met but not both together
FloorsCollide(g, d) ==
  /\ g.min_tutors_ip + g.min_tutors_v > Cardinality(AvailableOn(g, d))
  /\ g.min_tutors_ip <= Cardinality(AvailableOn(g, d))
  /\ g.min_tutors_v <= Cardinality(AvailableOn(g, d))

\* C16: for a valid input in which, on some day, min_tutors_ip + min_tutors_v
\* exceeds the number of tutors available that day, the construction ends
\* infeasible, also when each floor alone does not exceed that number.
C16_FloorsCompete ==
  (/\ Constructed
   /\ ValidInput(args)
   /\ \E d \in Range(args.days) :
        args.min_tutors_ip + args.min_tutors_v > Cardinality(AvailableOn(args, d))) =>
    /\ ~schedule_found
    /\ pc = "returned" /\ call.op = "schedule_found" => ret = Return(FALSE)

\* schedule_found() returned FALSE where only the sum of the floors is too
\* large: on every day each floor alone can be met, the per-tutor floors are 0
\* and every tutor may work both days
C16_Witness ==
  /\ pc = "returned" /\ call.op = "schedule_found" /\ ret = Return(FALSE)
  /\ ValidInput(args)
  /\ \E d \in Range(args.days) : FloorsCollide(args, d)
  /\ \A d \in Range(args.days) :
       /\ args.min_tutors_ip <= Cardinality(AvailableOn(args, d))
       /\ args.min_tutors_v <= Cardinality(AvailableOn(args, d))
  /\ args.min_tutor_shifts = 0 /\ args.min_tutor_ip_shifts = 0
  /\ \A t \in Range(args.tutors) : args.max_shifts_by_tutor[t] >= Len(args.days)

====
